---- MODULE Spec2Model ----
(***************************************************************************)
(* A model of archive/generate_journal.py: the journal-to-PDF transform.   *)
(*                                                                         *)
(*   - create_journal_pdf: load the JSON file, build the story (the list   *)
(*     of flowables), hand it to the document template;                    *)
(*   - MinimalCanvas: buffer every page in showPage, stamp and emit them   *)
(*     in save;                                                            *)
(*   - process_text: the text normalisation, on sequences of characters;   *)
(*   - the image scaling arithmetic, on exact fractions of a point.        *)
(*                                                                         *)
(* A JSON object is a function from the keys it has to their values; a key *)
(* the object lacks is outside its DOMAIN, and dict.get is Get below.      *)
(* Lengths are fractions of a point, [n |-> numerator, d |-> denominator], *)
(* d > 0, compared by cross-multiplication (Python computes them in        *)
(* floating point; the model is exact).                                    *)
(***************************************************************************)
EXTENDS Integers, Sequences, FiniteSets, TLC

VARIABLES
    \* create_journal_pdf
    jsonFile,       \* the file at json_path: missing, malformed, or a JSON object
    pc,             \* position in create_journal_pdf
    notebook_name,  \* local of create_journal_pdf
    logs,           \* local of create_journal_pdf
    idx,            \* number of log entries the loop has processed
    story,          \* the list of flowables built so far
    warnings,       \* the "Warning: Could not load image ..." lines printed
    rendered,       \* the stories handed to pdf.build, in call order
    outputFile,     \* the file at output_path: "absent" or "written"
    \* MinimalCanvas
    phase,          \* "idle", "collecting", "stamping", "finalized"
    code,           \* the drawing operations of the current page (canvas._code)
    pageNumber,     \* canvas._pageNumber
    pages,          \* self.pages: the buffered page states
    page_count,     \* local of save
    page_num,       \* loop counter of save: pages stamped so far
    stampCalls,     \* the calls draw_page_number(page_num, page_count) made
    document,       \* the pages emitted to the PDF document, in order
    saved,          \* canvas.Canvas.save has run
    \* process_text applied to a text
    text,           \* the input text
    tpc,            \* "idle", "input", "once", "twice"
    once,           \* process_text(text)
    twice,          \* process_text(process_text(text))
    \* image scaling applied to a native size
    spc,            \* "idle", "input", "done"
    imageWidth,     \* img.imageWidth
    imageHeight,    \* img.imageHeight
    placed          \* the outcome of the try block for that image

journalVars == <<jsonFile, pc, notebook_name, logs, idx, story, warnings,
                 rendered, outputFile>>
canvasVars  == <<phase, code, pageNumber, pages, page_count, page_num,
                 stampCalls, document, saved>>
textVars    == <<text, tpc, once, twice>>
scaleVars   == <<spc, imageWidth, imageHeight, placed>>
vars        == <<journalVars, canvasVars, textVars, scaleVars>>

-----------------------------------------------------------------------------
(* Bounds of the model *)

MaxEntries == 2       \* entries in "logs"
MaxAttachments == 2   \* attachments in the whole input, over all entries
MaxPages == 3         \* pages the layout engine composes
MaxDraws == 1         \* flowables the layout engine draws on a page
MaxPieces == 3        \* pieces a text is made of
MaxDimension == 12    \* native width and height of an image, in pixels

-----------------------------------------------------------------------------
(* Lengths: exact fractions of a point *)

Frac(n, d) == [n |-> n, d |-> d]
FMul(a, b) == Frac(a.n * b.n, a.d * b.d)
FDiv(a, b) == Frac(a.n * b.d, a.d * b.n)
FEq(a, b)  == a.n * b.d = b.n * a.d
FGt(a, b)  == a.n * b.d > b.n * a.d
FLe(a, b)  == a.n * b.d <= b.n * a.d

\* reportlab.lib.units.inch and reportlab.lib.pagesizes.letter[0], in points
inch == 72
letterWidth == 612

\* available_width = letter[0] - 2 * inch
available_width == Frac(letterWidth - 2 * inch, 1)

-----------------------------------------------------------------------------
(* process_text *)

\* str.replace: every non-overlapping occurrence of old, leftmost first
RECURSIVE Replace(_, _, _)
Replace(s, old, new) ==
    IF Len(s) < Len(old) THEN s
    ELSE IF SubSeq(s, 1, Len(old)) = old
         THEN new \o Replace(SubSeq(s, Len(old) + 1, Len(s)), old, new)
         ELSE <<Head(s)>> \o Replace(Tail(s), old, new)

NL    == <<"\n">>
BR    == <<"<", "b", "r", "/", ">">>
AMP   == <<"&">>
AMPE  == <<"&", "a", "m", "p", ";">>
LTSP  == <<"<", " ">>
LTESP == <<"&", "l", "t", ";", " ">>

\* a process_text that forgets to escape the ampersand
process_text_NoAmp(t) ==
    Replace(Replace(Replace(t, NL, BR), BR, BR), LTSP, LTESP)

process_text(t) ==
    LET t1 == Replace(t, NL, BR)
        t2 == Replace(t1, AMP, AMPE)
        t3 == Replace(t2, BR, BR)
    IN  Replace(t3, LTSP, LTESP)

-----------------------------------------------------------------------------
(* Image scaling: the body of the try block after the image is opened *)

\* a scaling that caps the height but leaves the width as it was
ScaleImage_KeepWidth(w, h) ==
    IF w = 0 THEN [ok |-> FALSE, cause |-> "division by zero"]
    ELSE LET max_img_width  == FMul(available_width, Frac(4, 10))
             max_img_height == Frac(3 * inch, 1)
             drawHeight     == FMul(max_img_width, Frac(h, w))
         IN  [ok |-> TRUE, drawWidth |-> max_img_width,
              drawHeight |-> IF FGt(drawHeight, max_img_height)
                             THEN max_img_height ELSE drawHeight]

\* a scaling that multiplies by the aspect where the code divides
ScaleImage_Multiply(w, h) ==
    IF w = 0 THEN [ok |-> FALSE, cause |-> "division by zero"]
    ELSE LET max_img_width  == FMul(available_width, Frac(4, 10))
             max_img_height == Frac(3 * inch, 1)
             aspect         == Frac(h, w)
             drawHeight     == FMul(max_img_width, aspect)
         IN  IF FGt(drawHeight, max_img_height)
             THEN [ok |-> TRUE, drawWidth |-> FMul(max_img_height, aspect),
                   drawHeight |-> max_img_height]
             ELSE [ok |-> TRUE, drawWidth |-> max_img_width,
                   drawHeight |-> drawHeight]

ScaleImage(w, h) ==
    IF w = 0
    THEN \* aspect = img.imageHeight / img.imageWidth raises ZeroDivisionError
         [ok |-> FALSE, cause |-> "division by zero"]
    ELSE LET max_img_width  == FMul(available_width, Frac(4, 10))
             max_img_height == Frac(3 * inch, 1)
             aspect         == Frac(h, w)
             drawWidth      == max_img_width
             drawHeight     == FMul(max_img_width, aspect)
         IN  IF FGt(drawHeight, max_img_height)
             THEN [ok |-> TRUE, drawWidth |-> FDiv(max_img_height, aspect),
                   drawHeight |-> max_img_height]
             ELSE [ok |-> TRUE, drawWidth |-> drawWidth,
                   drawHeight |-> drawHeight]

-----------------------------------------------------------------------------
(* JSON objects and the files on disk *)

Has(obj, key) == key \in DOMAIN obj

\* dict.get(key, default)
Get(obj, key, default) == IF Has(obj, key) THEN obj[key] ELSE default

NoKeys == [k \in {} |-> 0]

\* The files under <input-dir>/sawyer/attachments/: img_path.exists(), whether
\* the image library can open the file, and its native size in pixels.
FileOnDisk(filename) ==
    CASE filename = "wide.png" ->
           [exists |-> TRUE, readable |-> TRUE, imageWidth |-> 8, imageHeight |-> 4]
      [] filename = "tall.png" ->
           [exists |-> TRUE, readable |-> TRUE, imageWidth |-> 3, imageHeight |-> 5]
      [] filename = "w0.png" ->
           [exists |-> TRUE, readable |-> TRUE, imageWidth |-> 0, imageHeight |-> 4]
      [] filename = "bad.png" ->
           [exists |-> TRUE, readable |-> FALSE, imageWidth |-> 0, imageHeight |-> 0]
      [] OTHER ->
           [exists |-> FALSE, readable |-> FALSE, imageWidth |-> 0, imageHeight |-> 0]

Filenames == {"wide.png", "tall.png", "w0.png", "bad.png", "gone.png"}

\* The attachments of the input: a voice memo, an image attachment without a
\* "filename" key, and an image attachment for each file name.
Attachments ==
    {[type |-> "audio", filename |-> "memo.m4a"], [type |-> "image"]}
      \cup {[type |-> "image", filename |-> f] : f \in Filenames}

EntryDates == {"2024-01-01"}
EntryTexts == {<<>>, <<"H", "\n", "W">>}

\* The entries with exactly k attachments: the entry {} that lacks every key,
\* and the entries that have them all.
EntriesWith(k) ==
    (IF k = 0 THEN {NoKeys} ELSE {})
      \cup {[date |-> d, text |-> t, attachments |-> a] :
              d \in EntryDates, t \in EntryTexts, a \in [1..k -> Attachments]}

\* The number of attachments of a list of entries
RECURSIVE AttachmentCount(_)
AttachmentCount(entries) ==
    IF entries = <<>> THEN 0
    ELSE Len(Get(Head(entries), "attachments", <<>>)) + AttachmentCount(Tail(entries))

\* The input file before any entry is written to it: no file, a file that is
\* not JSON, or an object with or without "name" and with or without "logs".
EmptyJsonFiles ==
    {[state |-> "missing"], [state |-> "malformed"]}
      \cup {[state |-> "ok", data |-> n @@ l] :
              n \in {NoKeys, [name |-> "T"]}, l \in {NoKeys, [logs |-> <<>>]}}

-----------------------------------------------------------------------------
(* Flowables *)

Spacer(height) == [kind |-> "Spacer", height |-> height]
Paragraph(t, style) == [kind |-> "Paragraph", text |-> t, style |-> style]
Table(cells, colWidths, style) ==
    [kind |-> "Table", cells |-> cells, colWidths |-> colWidths, style |-> style]
Image(filename, drawWidth, drawHeight) ==
    [kind |-> "Image", filename |-> filename,
     drawWidth |-> drawWidth, drawHeight |-> drawHeight]
HRFlowable == [kind |-> "HRFlowable", width |-> "100%"]

\* the three blocks of the title: lines 136-138
TitleBlocks(name) ==
    <<Spacer(Frac(5 * inch, 10)), Paragraph(name, "title"), Spacer(Frac(3 * inch, 10))>>

-----------------------------------------------------------------------------
(* create_journal_pdf: the attachments of one entry *)

\* an attachment step without the img_path.exists() test: opening a missing
\* file raises inside the try block and the except clause prints a warning
LoadAttachment_NoExistsTest(attachment) ==
    IF ~(Has(attachment, "type") /\ attachment.type = "image")
    THEN [outcome |-> "skip"]
    ELSE IF ~Has(attachment, "filename")
    THEN [outcome |-> "raise"]
    ELSE LET filename == attachment.filename
             file     == FileOnDisk(filename)
         IN  IF ~file.exists \/ ~file.readable
             THEN [outcome |-> "warning", filename |-> filename,
                   cause |-> "cannot open file"]
             ELSE LET img == ScaleImage(file.imageWidth, file.imageHeight)
                  IN  IF img.ok
                      THEN [outcome |-> "image",
                            image |-> Image(filename, img.drawWidth, img.drawHeight)]
                      ELSE [outcome |-> "warning", filename |-> filename,
                            cause |-> img.cause]

\* an attachment step without the try block: a failure to open or measure
\* the image leaves the loop
LoadAttachment_NoTry(attachment) ==
    IF ~(Has(attachment, "type") /\ attachment.type = "image")
    THEN [outcome |-> "skip"]
    ELSE IF ~Has(attachment, "filename")
    THEN [outcome |-> "raise"]
    ELSE LET filename == attachment.filename
             file     == FileOnDisk(filename)
         IN  IF ~file.exists THEN [outcome |-> "skip"]
             ELSE IF ~file.readable THEN [outcome |-> "raise"]
             ELSE LET img == ScaleImage(file.imageWidth, file.imageHeight)
                  IN  IF img.ok
                      THEN [outcome |-> "image",
                            image |-> Image(filename, img.drawWidth, img.drawHeight)]
                      ELSE [outcome |-> "raise"]

\* One attachment, lines 168-189.  outcome: "skip" (not an image, or no such
\* file), "image", "warning" (the except clause) or "raise" (an exception
\* outside the try block: Path / None is a TypeError).
LoadAttachment(attachment) ==
    IF ~(Has(attachment, "type") /\ attachment.type = "image")
    THEN [outcome |-> "skip"]
    ELSE IF ~Has(attachment, "filename")
    THEN [outcome |-> "raise"]
    ELSE LET filename == attachment.filename
             file     == FileOnDisk(filename)
         IN  IF ~file.exists THEN [outcome |-> "skip"]
             ELSE IF ~file.readable
             THEN [outcome |-> "warning", filename |-> filename,
                   cause |-> "cannot identify image file"]
             ELSE LET img == ScaleImage(file.imageWidth, file.imageHeight)
                  IN  IF img.ok
                      THEN [outcome |-> "image",
                            image |-> Image(filename, img.drawWidth, img.drawHeight)]
                      ELSE [outcome |-> "warning", filename |-> filename,
                            cause |-> img.cause]

\* The loop over the attachments of an entry, lines 165-189: the images
\* collected, the warnings printed, and whether an exception left the loop.
RECURSIVE LoadImages(_)
LoadImages(attachments) ==
    IF attachments = <<>>
    THEN [images |-> <<>>, printed |-> <<>>, raised |-> FALSE]
    ELSE LET r == LoadAttachment(Head(attachments))
         IN  IF r.outcome = "raise"
             THEN [images |-> <<>>, printed |-> <<>>, raised |-> TRUE]
             ELSE LET rest == LoadImages(Tail(attachments))
                  IN  [images  |-> (IF r.outcome = "image" THEN <<r.image>> ELSE <<>>)
                                     \o rest.images,
                       printed |-> (IF r.outcome = "warning"
                                    THEN <<[filename |-> r.filename, cause |-> r.cause]>>
                                    ELSE <<>>) \o rest.printed,
                       raised  |-> rest.raised]

\* img_elements: the images with a Spacer between two of them, lines 202-209
RECURSIVE ImgElements(_)
ImgElements(images) ==
    IF Len(images) <= 1 THEN images
    ELSE <<Head(images), Spacer(Frac(10, 1))>> \o ImgElements(Tail(images))

\* a layout choice that takes two columns only for more than one image
ContentBlock_MoreThanOne(t, images) ==
    LET text_para == Paragraph(process_text(t), "body")
    IN  IF Len(images) > 1
        THEN Table(<<text_para, ImgElements(images)>>,
                   <<FMul(available_width, Frac(55, 100)),
                     FMul(available_width, Frac(45, 100))>>,
                   "columns")
        ELSE text_para

\* The content block of an entry, lines 192-226
ContentBlock(t, images) ==
    LET text_para == Paragraph(process_text(t), "body")
    IN  IF images # <<>>
        THEN Table(<<text_para, ImgElements(images)>>,
                   <<FMul(available_width, Frac(55, 100)),
                     FMul(available_width, Frac(45, 100))>>,
                   "columns")
        ELSE text_para

\* The date box of an entry, lines 151-160
DateTable(date) == Table(<<Paragraph(date, "date")>>, <<available_width>>, "date_box")

\* an entry loop that makes the date box only for an entry that has a date
EntryBlocks_NoBoxWithoutDate(log) ==
    LET t           == Get(log, "text", <<>>)
        attachments == Get(log, "attachments", <<>>)
        body        == <<Spacer(Frac(15, 1)),
                         ContentBlock(t, LoadImages(attachments).images),
                         Spacer(Frac(25, 1)), HRFlowable>>
    IN  IF Has(log, "date") THEN <<DateTable(log.date)>> \o body ELSE body

\* The blocks one entry adds to the story when no exception leaves the loop
EntryBlocks(log) ==
    LET date        == Get(log, "date", "No date")
        t           == Get(log, "text", <<>>)
        attachments == Get(log, "attachments", <<>>)
    IN  <<DateTable(date), Spacer(Frac(15, 1)),
          ContentBlock(t, LoadImages(attachments).images),
          Spacer(Frac(25, 1)), HRFlowable>>

-----------------------------------------------------------------------------
(* create_journal_pdf: the steps *)

\* The environment, before the program runs: one more entry is written to the
\* "logs" of the input file.
WriteEntry ==
    /\ pc = "start"
    /\ jsonFile.state = "ok"
    /\ Has(jsonFile.data, "logs")
    /\ Len(jsonFile.data.logs) < MaxEntries
    /\ \E k \in 0..(MaxAttachments - AttachmentCount(jsonFile.data.logs)) :
         \E e \in EntriesWith(k) :
           jsonFile' = [jsonFile EXCEPT !.data.logs = Append(@, e)]
    /\ UNCHANGED <<pc, notebook_name, logs, idx, story, warnings, rendered, outputFile>>
    /\ UNCHANGED <<canvasVars, textVars, scaleVars>>

\* a loader that takes an unreadable file for the empty object {}
LoadJson_EmptyOnError ==
    /\ pc = "start"
    /\ LET data == IF jsonFile.state = "ok" THEN jsonFile.data ELSE NoKeys
       IN  /\ pc' = "loop"
           /\ notebook_name' = Get(data, "name", "Journal")
           /\ logs' = Get(data, "logs", <<>>)
           /\ story' = TitleBlocks(Get(data, "name", "Journal"))
    /\ UNCHANGED <<jsonFile, idx, warnings, rendered, outputFile>>
    /\ UNCHANGED <<canvasVars, textVars, scaleVars>>

\* Lines 113-141: open and parse the file, read name and logs, start the story.
\* open() or json.load() raising leaves the function before anything is built.
LoadJson ==
    /\ pc = "start"
    /\ IF jsonFile.state # "ok"
       THEN /\ pc' = "aborted"
            /\ UNCHANGED <<notebook_name, logs, story>>
       ELSE /\ pc' = "loop"
            /\ notebook_name' = Get(jsonFile.data, "name", "Journal")
            /\ logs' = Get(jsonFile.data, "logs", <<>>)
            /\ story' = TitleBlocks(Get(jsonFile.data, "name", "Journal"))
    /\ UNCHANGED <<jsonFile, idx, warnings, rendered, outputFile>>
    /\ UNCHANGED <<canvasVars, textVars, scaleVars>>

\* Lines 144-231: one iteration of the loop over the entries.
ProcessEntry ==
    /\ pc = "loop"
    /\ idx < Len(logs)
    /\ LET log    == logs[idx + 1]
           loaded == LoadImages(Get(log, "attachments", <<>>))
       IN  /\ warnings' = warnings \o loaded.printed
           /\ IF loaded.raised
              THEN /\ pc' = "failed"
                   /\ story' = story \o <<DateTable(Get(log, "date", "No date")),
                                          Spacer(Frac(15, 1))>>
                   /\ idx' = idx
              ELSE /\ pc' = "loop"
                   /\ story' = story \o EntryBlocks(log)
                   /\ idx' = idx + 1
    /\ UNCHANGED <<jsonFile, notebook_name, logs, rendered, outputFile>>
    /\ UNCHANGED <<canvasVars, textVars, scaleVars>>

\* Lines 234-236: pdf.build(story) lays the story out and writes the file.
BuildPdf ==
    /\ pc = "loop"
    /\ idx = Len(logs)
    /\ rendered' = Append(rendered, story)
    /\ outputFile' = "written"
    /\ pc' = "built"
    /\ UNCHANGED <<jsonFile, notebook_name, logs, idx, story, warnings>>
    /\ UNCHANGED <<canvasVars, textVars, scaleVars>>

-----------------------------------------------------------------------------
(* MinimalCanvas *)

\* what the layout engine draws on a page
DrawOps == {[op |-> "drawFlowable", arg |-> "text"], [op |-> "drawFlowable", arg |-> "image"]}

\* draw_page_number(page_num, page_count), lines 44-48: the string drawn is
\* str(page_num); page_count is received and not drawn.
PageNumberOp(num, count) == [op |-> "drawCentredString", arg |-> ToString(num)]

\* dict(self.__dict__): the state of the page being closed
PageState == [code |-> code, pageNumber |-> pageNumber]

\* The layout engine draws a flowable on the current page.
Draw ==
    /\ phase = "collecting"
    /\ Len(pages) < MaxPages
    /\ Len(code) < MaxDraws
    /\ \E op \in DrawOps : code' = Append(code, op)
    /\ UNCHANGED <<phase, pageNumber, pages, page_count, page_num, stampCalls,
                   document, saved>>
    /\ UNCHANGED <<journalVars, textVars, scaleVars>>

\* showPage, lines 32-34: buffer the page state and start the next page;
\* nothing is emitted to the document.
showPage ==
    /\ phase = "collecting"
    /\ Len(pages) < MaxPages
    /\ pages' = Append(pages, PageState)
    /\ code' = <<>>
    /\ pageNumber' = pageNumber + 1
    /\ UNCHANGED <<phase, page_count, page_num, stampCalls, document, saved>>
    /\ UNCHANGED <<journalVars, textVars, scaleVars>>

\* save, lines 36-37. The document template (pdf.build, line 235) ends every
\* page with showPage and calls save once, after the last of them, so the
\* current page is empty when save starts.
SaveBegin ==
    /\ phase = "collecting"
    /\ code = <<>>
    /\ page_count' = Len(pages)
    /\ page_num' = 0
    /\ phase' = "stamping"
    /\ UNCHANGED <<code, pageNumber, pages, stampCalls, document, saved>>
    /\ UNCHANGED <<journalVars, textVars, scaleVars>>

\* a loop body that closes the page with self.showPage(), the override
StampPage_Override ==
    /\ phase = "stamping"
    /\ page_num < Len(pages)
    /\ Len(pages) < MaxPages + 2
    /\ LET num  == page_num + 1
           page == pages[num]
       IN  /\ stampCalls' = Append(stampCalls, [page_num |-> num, page_count |-> page_count])
           /\ pages' = Append(pages, [code |-> Append(page.code, PageNumberOp(num, page_count)),
                                      pageNumber |-> page.pageNumber])
           /\ code' = <<>>
           /\ pageNumber' = page.pageNumber + 1
           /\ page_num' = num
    /\ UNCHANGED <<phase, page_count, document, saved>>
    /\ UNCHANGED <<journalVars, textVars, scaleVars>>

\* a loop body that numbers the pages from 0, as enumerate(self.pages) would
StampPage_FromZero ==
    /\ phase = "stamping"
    /\ page_num < Len(pages)
    /\ LET num  == page_num + 1
           page == pages[num]
       IN  /\ stampCalls' = Append(stampCalls, [page_num |-> num - 1, page_count |-> page_count])
           /\ document' = Append(document,
                                 Append(page.code, PageNumberOp(num - 1, page_count)))
           /\ code' = <<>>
           /\ pageNumber' = page.pageNumber + 1
           /\ page_num' = num
    /\ UNCHANGED <<phase, pages, page_count, saved>>
    /\ UNCHANGED <<journalVars, textVars, scaleVars>>

\* save, lines 38-41: one iteration of the loop over self.pages. The page state
\* is restored, the number is drawn on it, and canvas.Canvas.showPage (the
\* base method, which does not buffer) emits the page and starts the next.
StampPage ==
    /\ phase = "stamping"
    /\ page_num < Len(pages)
    /\ LET num  == page_num + 1
           page == pages[num]
       IN  /\ stampCalls' = Append(stampCalls, [page_num |-> num, page_count |-> page_count])
           /\ document' = Append(document,
                                 Append(page.code, PageNumberOp(num, page_count)))
           /\ code' = <<>>
           /\ pageNumber' = page.pageNumber + 1
           /\ page_num' = num
    /\ UNCHANGED <<phase, pages, page_count, saved>>
    /\ UNCHANGED <<journalVars, textVars, scaleVars>>

\* save, line 42: canvas.Canvas.save writes the document.
SaveEnd ==
    /\ phase = "stamping"
    /\ page_num = Len(pages)
    /\ saved' = TRUE
    /\ phase' = "finalized"
    /\ UNCHANGED <<code, pageNumber, pages, page_count, page_num, stampCalls, document>>
    /\ UNCHANGED <<journalVars, textVars, scaleVars>>

-----------------------------------------------------------------------------
(* process_text and the image scaling, applied to inputs of bounded sets *)

\* the pieces a text is made of: characters the normalisation reads, a letter,
\* and the sequences it writes
Pieces == {NL, AMP, <<"<">>, <<" ">>, <<"a">>, BR, AMPE, LTESP}

RECURSIVE TextsOf(_)
TextsOf(n) ==
    IF n = 0 THEN {<<>>}
    ELSE LET shorter == TextsOf(n - 1)
         IN  shorter \cup {p \o t : p \in Pieces, t \in shorter}

NormalizeOnce ==
    /\ tpc = "input"
    /\ once' = process_text(text)
    /\ tpc' = "once"
    /\ UNCHANGED <<text, twice>>
    /\ UNCHANGED <<journalVars, canvasVars, scaleVars>>

NormalizeTwice ==
    /\ tpc = "once"
    /\ twice' = process_text(once)
    /\ tpc' = "twice"
    /\ UNCHANGED <<text, once>>
    /\ UNCHANGED <<journalVars, canvasVars, scaleVars>>

\* the try block of lines 173-187 for an image of the native size drawn
PlaceImage ==
    /\ spc = "input"
    /\ placed' = ScaleImage(imageWidth, imageHeight)
    /\ spc' = "done"
    /\ UNCHANGED <<imageWidth, imageHeight>>
    /\ UNCHANGED <<journalVars, canvasVars, textVars>>

-----------------------------------------------------------------------------
(* Specifications *)

JournalIdle ==
    /\ jsonFile = [state |-> "missing"]
    /\ pc = "idle"
    /\ notebook_name = ""
    /\ logs = <<>>
    /\ idx = 0
    /\ story = <<>>
    /\ warnings = <<>>
    /\ rendered = <<>>
    /\ outputFile = "absent"

CanvasIdle ==
    /\ phase = "idle"
    /\ code = <<>>
    /\ pageNumber = 0
    /\ pages = <<>>
    /\ page_count = 0
    /\ page_num = 0
    /\ stampCalls = <<>>
    /\ document = <<>>
    /\ saved = FALSE

TextIdle ==
    /\ text = <<>>
    /\ tpc = "idle"
    /\ once = <<>>
    /\ twice = <<>>

ScaleIdle ==
    /\ spc = "idle"
    /\ imageWidth = 0
    /\ imageHeight = 0
    /\ placed = [ok |-> FALSE, cause |-> "none"]

\* create_journal_pdf has not been called; the input file has no entry yet
Init ==
    /\ jsonFile \in EmptyJsonFiles
    /\ pc = "start"
    /\ notebook_name = ""
    /\ logs = <<>>
    /\ idx = 0
    /\ story = <<>>
    /\ warnings = <<>>
    /\ rendered = <<>>
    /\ outputFile = "absent"
    /\ CanvasIdle /\ TextIdle /\ ScaleIdle

Next == WriteEntry \/ LoadJson \/ ProcessEntry \/ BuildPdf

Spec == Init /\ [][Next]_vars

\* MinimalCanvas.__init__, lines 28-30: a canvas on its first page, no page buffered
InitCanvas ==
    /\ phase = "collecting"
    /\ code = <<>>
    /\ pageNumber = 1
    /\ pages = <<>>
    /\ page_count = 0
    /\ page_num = 0
    /\ stampCalls = <<>>
    /\ document = <<>>
    /\ saved = FALSE
    /\ JournalIdle /\ TextIdle /\ ScaleIdle

NextCanvas == Draw \/ showPage \/ SaveBegin \/ StampPage \/ SaveEnd

SpecCanvas == InitCanvas /\ [][NextCanvas]_vars

InitText ==
    /\ text \in TextsOf(MaxPieces)
    /\ tpc = "input"
    /\ once = <<>>
    /\ twice = <<>>
    /\ JournalIdle /\ CanvasIdle /\ ScaleIdle

NextText == NormalizeOnce \/ NormalizeTwice

SpecText == InitText /\ [][NextText]_vars

InitScale ==
    /\ spc = "input"
    /\ imageWidth \in 0..MaxDimension
    /\ imageHeight \in 0..MaxDimension
    /\ placed = [ok |-> FALSE, cause |-> "none"]
    /\ JournalIdle /\ CanvasIdle /\ TextIdle

NextScale == PlaceImage

SpecScale == InitScale /\ [][NextScale]_vars

-----------------------------------------------------------------------------
(* Reading a story and an input, for the properties below *)

\* the "logs" of the input file, [] when the key is absent
InputLogs ==
    IF jsonFile.state = "ok" THEN Get(jsonFile.data, "logs", <<>>) ELSE <<>>

InputName ==
    IF jsonFile.state = "ok" THEN Get(jsonFile.data, "name", "Journal") ELSE "Journal"

IsSpacer(b)     == b.kind = "Spacer"
IsDateHeader(b) == b.kind = "Table" /\ Len(b.cells) = 1 /\ b.cells[1].style = "date"
IsDivider(b)    == b.kind = "HRFlowable"
IsTwoColumn(b)  == b.kind = "Table" /\ Len(b.cells) = 2
IsTextBlock(b)  == b.kind = "Paragraph" /\ b.style = "body"
IsImage(b)      == b.kind = "Image"
NotSpacer(b)    == ~IsSpacer(b)

HeaderPos(s)  == {p \in 1..Len(s) : IsDateHeader(s[p])}
DividerPos(s) == {p \in 1..Len(s) : IsDivider(s[p])}

\* the i-th smallest element of a set of positions
Nth(S, i) == CHOOSE p \in S : Cardinality({q \in S : q <= p}) = i

\* the blocks strictly between the i-th date header and the i-th divider of s
\* that are not spacers
ContentOf(s, i) ==
    SelectSeq(SubSeq(s, Nth(HeaderPos(s), i) + 1, Nth(DividerPos(s), i) - 1), NotSpacer)

\* the file names of the images a content block places, in order
ImageNames(b) ==
    IF IsTwoColumn(b)
    THEN LET imgs == SelectSeq(b.cells[2], IsImage)
         IN  [k \in 1..Len(imgs) |-> imgs[k].filename]
    ELSE <<>>

AttachmentsOf(log) == Get(log, "attachments", <<>>)

IsImageAttachment(a) == Has(a, "type") /\ a.type = "image"
NamesFile(a)         == IsImageAttachment(a) /\ Has(a, "filename")
FileMissing(a)       == NamesFile(a) /\ ~FileOnDisk(a.filename).exists
FileExists(a)        == NamesFile(a) /\ FileOnDisk(a.filename).exists
\* the file exists, opens, and has a native width other than zero
FileLoads(a) ==
    /\ FileExists(a)
    /\ FileOnDisk(a.filename).readable
    /\ FileOnDisk(a.filename).imageWidth # 0
FileFailsToLoad(a)   == FileExists(a) /\ ~FileLoads(a)

FilenamesOf(atts) == [k \in 1..Len(atts) |-> atts[k].filename]

\* the entries whose blocks are complete in the story
Processed == IF pc \in {"loop", "built", "failed"} THEN 1..idx ELSE {}

-----------------------------------------------------------------------------
(* C1 *)

\* C1: every story handed to the renderer starts with the three title blocks
\* and holds exactly one date header and one divider per input entry; the
\* i-th header precedes the i-th divider, which precedes the next header; the
\* i-th header shows the date of the i-th input entry and the images between
\* it and its divider are files of that entry's attachments. With no entry the
\* story is the title blocks alone.
C1_HeaderAndDividerPerEntry ==
    \A r \in DOMAIN rendered :
        LET s == rendered[r]
            n == Len(InputLogs)
            H == HeaderPos(s)
            D == DividerPos(s)
        IN  /\ Len(s) >= 3
            /\ IsSpacer(s[1]) /\ IsSpacer(s[3])
            /\ s[2].kind = "Paragraph" /\ s[2].style = "title" /\ s[2].text = InputName
            /\ Cardinality(H) = n
            /\ Cardinality(D) = n
            /\ n = 0 => Len(s) = 3
            /\ \A i \in 1..n :
                 /\ 3 < Nth(H, i)
                 /\ Nth(H, i) < Nth(D, i)
                 /\ i < n => Nth(D, i) < Nth(H, i + 1)
                 /\ s[Nth(H, i)].cells[1].text = Get(InputLogs[i], "date", "No date")
                 /\ \A c \in DOMAIN ContentOf(s, i) :
                      \A k \in DOMAIN ImageNames(ContentOf(s, i)[c]) :
                        \E a \in DOMAIN AttachmentsOf(InputLogs[i]) :
                          /\ NamesFile(AttachmentsOf(InputLogs[i])[a])
                          /\ AttachmentsOf(InputLogs[i])[a].filename
                               = ImageNames(ContentOf(s, i)[c])[k]

\* a story of two entries was rendered: the first lacks every key, the second
\* has a date, a text and an image that loads
C1_Witness ==
    /\ pc = "built"
    /\ Len(rendered) = 1
    /\ Len(InputLogs) = 2
    /\ InputLogs[1] = NoKeys
    /\ Has(InputLogs[2], "date")
    /\ \E a \in DOMAIN AttachmentsOf(InputLogs[2]) : FileLoads(AttachmentsOf(InputLogs[2])[a])

-----------------------------------------------------------------------------
(* C4 *)

\* C4: the one block between the date header and the divider of a processed
\* entry is a two-column table, 55% and 45% of the 468-point content width,
\* if and only if an image attachment of the entry names a file that exists
\* and loads; otherwise it is the body paragraph alone.
C4_TwoColumnsIffImageLoaded ==
    \A i \in Processed :
        LET content == ContentOf(story, i)
            atts    == AttachmentsOf(InputLogs[i])
        IN  /\ Len(content) = 1
            /\ IF \E a \in DOMAIN atts : FileLoads(atts[a])
               THEN /\ IsTwoColumn(content[1])
                    /\ IsTextBlock(content[1].cells[1])
                    /\ FEq(content[1].colWidths[1], Frac(55 * 468, 100))
                    /\ FEq(content[1].colWidths[2], Frac(45 * 468, 100))
               ELSE IsTextBlock(content[1])

\* processed: an entry with a loaded image next to one whose only image
\* attachment names a missing file, and one with a voice memo only
C4_Witness ==
    /\ pc = "built"
    /\ \E i \in Processed : IsTwoColumn(ContentOf(story, i)[1])
    /\ \E i \in Processed :
         /\ IsTextBlock(ContentOf(story, i)[1])
         /\ AttachmentsOf(InputLogs[i]) # <<>>
         /\ \A a \in DOMAIN AttachmentsOf(InputLogs[i]) :
              ~IsImageAttachment(AttachmentsOf(InputLogs[i])[a])

-----------------------------------------------------------------------------
(* C5 *)

\* C5 as claimed: for every processed entry and every image attachment whose
\* file does not exist, a warning naming the file was printed, no image block
\* shows the file, and the images of the entry are those of its image
\* attachments whose file exists, in input order.
C5_Original ==
    \A i \in Processed :
        LET atts == AttachmentsOf(InputLogs[i])
        IN  \A a \in DOMAIN atts :
              FileMissing(atts[a]) =>
                /\ \E w \in DOMAIN warnings : warnings[w].filename = atts[a].filename
                /\ ImageNames(ContentOf(story, i)[1])
                     = FilenamesOf(SelectSeq(atts, FileExists))

\* C5 amended: no warning is ever printed for a file that does not exist; the
\* images of every processed entry are those of its image attachments whose
\* file exists and loads, in input order, whatever missing files the entry
\* also names; and the run fails only at an image attachment without a
\* "filename", never at a missing file.
C5_MissingFileSkippedSilently ==
    /\ \A w \in DOMAIN warnings : FileOnDisk(warnings[w].filename).exists
    /\ \A i \in Processed :
         ImageNames(ContentOf(story, i)[1])
           = FilenamesOf(SelectSeq(AttachmentsOf(InputLogs[i]), FileLoads))
    /\ pc = "failed" =>
         \E a \in DOMAIN AttachmentsOf(InputLogs[idx + 1]) :
           LET att == AttachmentsOf(InputLogs[idx + 1])[a]
           IN  IsImageAttachment(att) /\ ~Has(att, "filename")

\* rendered: an entry that names a missing file and then a file that loads
C5_Witness ==
    /\ pc = "built"
    /\ warnings = <<>>
    /\ \E i \in Processed :
         /\ Len(AttachmentsOf(InputLogs[i])) = 2
         /\ FileMissing(AttachmentsOf(InputLogs[i])[1])
         /\ FileLoads(AttachmentsOf(InputLogs[i])[2])
         /\ ImageNames(ContentOf(story, i)[1]) = <<AttachmentsOf(InputLogs[i])[2].filename>>

-----------------------------------------------------------------------------
(* C6 *)

\* the files, in order, that exist and fail to load in the entries 1..n
RECURSIVE FailedLoads(_)
FailedLoads(n) ==
    IF n = 0 THEN <<>>
    ELSE FailedLoads(n - 1)
           \o FilenamesOf(SelectSeq(AttachmentsOf(InputLogs[n]), FileFailsToLoad))

\* C6: a file that exists and fails to load (it cannot be opened, or its
\* native width is zero) never ends the run. While the loop runs and after the
\* build, the warnings printed name exactly the files that failed to load in
\* the processed entries, in order; each such entry still has its text block
\* and its divider, and its images are the other attachments' that load; the
\* run fails only at an image attachment without a "filename"; and a build
\* has processed every entry and handed the story to the renderer.
C6_LoadFailureNeverAborts ==
    /\ pc \in {"loop", "built"} =>
         [k \in 1..Len(warnings) |-> warnings[k].filename] = FailedLoads(idx)
    /\ \A i \in Processed :
         LET atts == AttachmentsOf(InputLogs[i])
         IN  (\E a \in DOMAIN atts : FileFailsToLoad(atts[a])) =>
               /\ Cardinality(DividerPos(story)) >= i
               /\ Len(ContentOf(story, i)) = 1
               /\ LET b == ContentOf(story, i)[1]
                  IN  /\ IsTextBlock(b) \/ (IsTwoColumn(b) /\ IsTextBlock(b.cells[1]))
                      /\ ImageNames(b) = FilenamesOf(SelectSeq(atts, FileLoads))
    /\ pc = "failed" =>
         /\ idx < Len(InputLogs)
         /\ \E a \in DOMAIN AttachmentsOf(InputLogs[idx + 1]) :
              LET att == AttachmentsOf(InputLogs[idx + 1])[a]
              IN  IsImageAttachment(att) /\ ~Has(att, "filename")
    /\ pc = "built" =>
         /\ idx = Len(InputLogs)
         /\ rendered = <<story>>
         /\ outputFile = "written"

\* rendered: a first entry with a file that cannot be opened and then one that
\* loads, and a later entry with a file of native width zero
C6_Witness ==
    /\ pc = "built"
    /\ Len(InputLogs) = 2
    /\ Len(warnings) = 2
    /\ warnings[1].filename = "bad.png"
    /\ warnings[2].filename = "w0.png"
    /\ warnings[2].cause = "division by zero"
    /\ Cardinality(DividerPos(rendered[1])) = 2

-----------------------------------------------------------------------------
(* C8 *)

\* C8: with the input file missing or not JSON, create_journal_pdf leaves with
\* the error (it is at its start or aborted, never in the loop or built), no
\* block is built, nothing is handed to the renderer, and the output file is
\* not written.
C8_BadInputAbortsBeforeOutput ==
    jsonFile.state # "ok" =>
        /\ pc \in {"start", "aborted"}
        /\ story = <<>>
        /\ rendered = <<>>
        /\ outputFile = "absent"

C8_Witness ==
    /\ jsonFile.state = "malformed"
    /\ pc = "aborted"

-----------------------------------------------------------------------------
(* C2 *)

\* sub occurs in s
Contains(s, sub) ==
    \E i \in 1..(Len(s) - Len(sub) + 1) : SubSeq(s, i, i + Len(sub) - 1) = sub

\* C2 as claimed: for every text, normalising the normalised text changes
\* nothing.
C2_Original == tpc = "twice" => twice = once

\* C2 amended: normalising the normalised text changes nothing exactly for
\* the texts that hold no "&" and no "<" followed by a space; for any other
\* text the second pass escapes the "&" the first pass wrote, and the two
\* results differ.
C2_IdempotentWithoutAmpersand ==
    tpc = "twice" =>
        ((twice = once) <=> (~Contains(text, AMP) /\ ~Contains(text, LTSP)))

\* a text with a line break and a "<br/>" already in it: the first pass
\* rewrites it, the second leaves it
C2_Witness ==
    /\ tpc = "twice"
    /\ Contains(text, NL)
    /\ Contains(text, BR)
    /\ once # text
    /\ twice = once

-----------------------------------------------------------------------------
(* C3 *)

\* C3: an image of native size (w, h) is placed only if w > 0, and then
\* drawWidth * h = drawHeight * w (the ratio is w/h), drawHeight is at most
\* 216 points (3 inch), and: if 0.4 * 468 * h/w is at most 216, drawWidth is
\* 0.4 * 468 and drawHeight is drawWidth * h/w; otherwise drawHeight is 216
\* and drawWidth is 216 * w/h.
C3_AspectKeptHeightCapped ==
    (spc = "done" /\ placed.ok) =>
        LET w == imageWidth
            h == imageHeight
            W == placed.drawWidth
            H == placed.drawHeight
        IN  /\ w > 0
            /\ W.n * H.d * h = H.n * W.d * w
            /\ FLe(H, Frac(216, 1))
            /\ IF 4 * 468 * h <= 216 * 10 * w
               THEN FEq(W, Frac(4 * 468, 10)) /\ FEq(H, Frac(4 * 468 * h, 10 * w))
               ELSE FEq(H, Frac(216, 1)) /\ FEq(W, Frac(216 * w, h))

\* an image twice as high as wide was placed: the cap applies
C3_Witness ==
    /\ spc = "done"
    /\ placed.ok
    /\ imageWidth = 4
    /\ imageHeight = 8
    /\ FEq(placed.drawHeight, Frac(216, 1))
    /\ FEq(placed.drawWidth, Frac(108, 1))

-----------------------------------------------------------------------------
(* C10 *)

\* C10: the width of a placed image is at most 40% of the 468-point content
\* width, and with the 5-point padding on its left and on its right it is
\* less than the 45% image column.
C10_ImageFitsItsColumn ==
    (spc = "done" /\ placed.ok) =>
        LET W == placed.drawWidth
        IN  /\ FLe(W, Frac(40 * 468, 100))
            /\ (W.n + 10 * W.d) * 100 < 45 * 468 * W.d

\* a high image was placed with the cap: its width is below the 40%
C10_Witness ==
    /\ spc = "done"
    /\ placed.ok
    /\ imageWidth = 1
    /\ imageHeight = 12
    /\ FEq(placed.drawWidth, Frac(18, 1))

-----------------------------------------------------------------------------
(* C7 *)

\* the page number operations among the operations of a page
StampsOn(page) == SelectSeq(page, LAMBDA o : o.op = "drawCentredString")

\* C7: once save has completed, the document holds exactly the buffered
\* pages, in the order composed: its k-th page is the k-th composed page
\* with one page number operation, showing k, added to it; and
\* draw_page_number was called once per page, for k = 1..N in order, each
\* time with page_count = N, the number of buffered pages.
C7_EveryPageNumberedOnceInOrder ==
    saved =>
        LET N == Len(pages)
        IN  /\ Len(document) = N
            /\ \A k \in 1..N :
                 /\ pages[k].pageNumber = k
                 /\ StampsOn(pages[k].code) = <<>>
                 /\ SubSeq(document[k], 1, Len(pages[k].code)) = pages[k].code
                 /\ Len(StampsOn(document[k])) = 1
                 /\ StampsOn(document[k])[1].arg = ToString(k)
                 /\ Len(document[k]) = Len(pages[k].code) + 1
            /\ stampCalls = [k \in 1..N |-> [page_num |-> k, page_count |-> N]]

\* three pages of different content were composed and saved
C7_Witness ==
    /\ saved
    /\ Len(pages) = 3
    /\ pages[1].code # pages[2].code
    /\ pages[2].code # pages[3].code
    /\ Len(document) = 3

-----------------------------------------------------------------------------
(* C9 *)

\* C9: while pages are collected no page is stamped and none is emitted;
\* the canvas only ever moves from collecting to stamping and from stamping
\* to finalized; once it has left collecting the page buffer never changes;
\* and it is finalized only with every buffered page stamped and emitted.
C9_CollectThenStampThenFinalize ==
    /\ [](phase = "collecting" => (stampCalls = <<>> /\ document = <<>> /\ ~saved))
    /\ [][phase' # phase =>
            \/ (phase = "collecting" /\ phase' = "stamping")
            \/ (phase = "stamping" /\ phase' = "finalized")]_vars
    /\ [][phase # "collecting" => pages' = pages]_vars
    /\ [][Len(stampCalls') > Len(stampCalls) => phase = "stamping"]_vars
    /\ [](phase = "finalized" =>
            (saved /\ Len(stampCalls) = Len(pages) /\ Len(document) = Len(pages)))

\* a canvas finalized after two pages
C9_Witness ==
    /\ phase = "finalized"
    /\ Len(pages) = 2
    /\ Len(document) = 2

====
